---- MODULE Spec2Model ----
(***************************************************************************)
(* jClock: the settings store (clock/config_manager.py), the clock window  *)
(* (clock/clock.py) and the tray quit path (clock/system_tray.py).         *)
(*                                                                         *)
(* Three specifications share the variables:                              *)
(*   SpecAccessors  the typed accessors applied to bounded raw values      *)
(*   SpecStore      ClockSettings driven by an arbitrary client            *)
(*   Spec           the application: store, timers, animation, window      *)
(*                                                                         *)
(* Raw configuration values are sequences of one-character strings, so     *)
(* that split / strip / lower / int() are computed, not assumed.           *)
(***************************************************************************)
EXTENDS Integers, Sequences, FiniteSets, TLC

VARIABLES
    \* ---- the backing file and the wall clock (environment)
    file,               \* parsed content of settings.ini: key -> raw value
    text,               \* the lines of settings.ini where the tray toggle
                        \* rewrites them (SpecToggle); empty elsewhere
    fileExists,         \* ini_path.exists()
    fileMtime,          \* st_mtime of the file
    now,                \* wall clock, stamps the file on a write
    \* ---- ClockSettings
    config,             \* self.config: key -> raw value (partial function)
    last_modified,      \* self.last_modified
    watchers,           \* self.watchers, a list of callback identities
    \* ---- FloatingClock
    visible,            \* isVisible()
    staysOnTop,         \* Qt.WindowStaysOnTopHint in the window flags
    windowOpacity,      \* windowOpacity(), 0..OpMax
    hidden,             \* self.hidden (proximity flag)
    is_fullscreen_active,
    animState,          \* self.animation.state(): "Stopped" | "Running"
    animValue,          \* the animation's current value
    animEnd,            \* the animation's end value
    finishedSlots,      \* slots connected to animation.finished, in order
    animCallback,       \* on_finished of the animation in flight ("none": none)
    timerActive,        \* self.timer running
    mouseTimerActive,   \* self.mouse_timer running
    fullscreenTimerActive,
    fileWatcherActive,  \* settings.file_watcher running
    trayVisible,
    lambdas,            \* number of closure objects created so far
    closeAccepted,      \* the close event was accepted (window closed)
    quitRequested,      \* QApplication.quit() was called
    \* ---- history of the last handler that ran
    lastOp,             \* which handler, its input and the branch it took
    notified,           \* watcher invocations of that handler, in order
    started,            \* end values of the animations it started, in order
    ret,                \* value returned by the last accessor call
    pendingChanges      \* content changes of the file since the last poll

storeVars == <<config, last_modified, watchers>>
fileVars  == <<file, text, fileExists, fileMtime, now>>
clockVars == <<visible, staysOnTop, windowOpacity, hidden, is_fullscreen_active, animState,
               animValue, animEnd, finishedSlots, animCallback, timerActive, mouseTimerActive,
               fullscreenTimerActive, fileWatcherActive, trayVisible, lambdas,
               closeAccepted, quitRequested>>
histVars  == <<lastOp, notified, started, ret, pendingChanges>>
vars      == <<fileVars, storeVars, clockVars, histVars>>

(***************************************************************************)
(* Bounds                                                                  *)
(***************************************************************************)
MaxTime == 3
NumCallbacks == 2
OpMax == 2
MaxSlots == 2

(***************************************************************************)
(* Strings as sequences of characters                                      *)
(***************************************************************************)
Range(s) == {s[i] : i \in 1..Len(s)}

Digits == <<"0", "1", "2", "3", "4", "5", "6", "7", "8", "9">>

IsDigit(c) == \E i \in 1..10 : Digits[i] = c

DigitVal(c) == (CHOOSE i \in 1..10 : Digits[i] = c) - 1

UpperCase ==
    <<"A","B","C","D","E","F","G","H","I","J","K","L","M",
      "N","O","P","Q","R","S","T","U","V","W","X","Y","Z">>

LowerCase ==
    <<"a","b","c","d","e","f","g","h","i","j","k","l","m",
      "n","o","p","q","r","s","t","u","v","w","x","y","z">>

\* str.lower()
lower(s) ==
    [i \in 1..Len(s) |->
        IF \E j \in 1..26 : UpperCase[j] = s[i]
        THEN LowerCase[CHOOSE j \in 1..26 : UpperCase[j] = s[i]]
        ELSE s[i]]

IsSpace(c) == c \in {" ", "\t", "\n", "\r"}

\* str.strip()
strip(s) ==
    LET idx == {i \in 1..Len(s) : ~IsSpace(s[i])}
    IN  IF idx = {} THEN <<>>
        ELSE SubSeq(s, CHOOSE i \in idx : \A j \in idx : i <= j,
                       CHOOSE i \in idx : \A j \in idx : i >= j)

\* s.split(sep)[0]
splitFirst(s, sep) ==
    LET idx == {i \in 1..Len(s) : s[i] = sep}
    IN  IF idx = {} THEN s
        ELSE SubSeq(s, 1, (CHOOSE i \in idx : \A j \in idx : i <= j) - 1)

\* s.split(sep): the list of fields
RECURSIVE split(_, _)
split(s, sep) ==
    LET idx == {i \in 1..Len(s) : s[i] = sep}
    IN  IF idx = {} THEN <<s>>
        ELSE LET p == CHOOSE i \in idx : \A j \in idx : i <= j
             IN  <<SubSeq(s, 1, p - 1)>> \o split(SubSeq(s, p + 1, Len(s)), sep)

RECURSIVE DigitsValue(_)
DigitsValue(s) ==
    IF s = <<>> THEN 0
    ELSE 10 * DigitsValue(SubSeq(s, 1, Len(s) - 1)) + DigitVal(s[Len(s)])

AllDigits(s) == Len(s) >= 1 /\ \A i \in 1..Len(s) : IsDigit(s[i])

Unsigned(s) == IF Len(s) >= 1 /\ s[1] \in {"+", "-"} THEN Tail(s) ELSE s

Sign(s) == IF Len(s) >= 1 /\ s[1] = "-" THEN -1 ELSE 1

\* int(s) succeeds: surrounding blanks, an optional sign, decimal digits
IntOk(s) == AllDigits(Unsigned(strip(s)))

\* int(s)
IntVal(s) == Sign(strip(s)) * DigitsValue(Unsigned(strip(s)))

(***************************************************************************)
(* Numbers as Python prints and parses them.  A float is <<n, d>>, the     *)
(* value n / 10^d with no trailing zero in the fraction.                   *)
(***************************************************************************)
RECURSIVE Pow10(_)
Pow10(d) == IF d = 0 THEN 1 ELSE 10 * Pow10(d - 1)

RECURSIVE Normal(_)
Normal(f) ==
    IF f[2] > 0 /\ f[1] % 10 = 0 THEN Normal(<<f[1] \div 10, f[2] - 1>>) ELSE f

\* float(s) succeeds: blanks, optional sign, digits with at most one point
FloatOk(s) ==
    LET parts == split(Unsigned(strip(s)), ".")
    IN  /\ Len(parts) \in {1, 2}
        /\ \A i \in 1..Len(parts) : parts[i] = <<>> \/ AllDigits(parts[i])
        /\ \E i \in 1..Len(parts) : parts[i] # <<>>

\* float(s)
FloatVal(s) ==
    LET parts == split(Unsigned(strip(s)), ".")
        frac  == IF Len(parts) = 2 THEN parts[2] ELSE <<>>
    IN  Normal(<<Sign(strip(s)) * DigitsValue(parts[1] \o frac), Len(frac)>>)

RECURSIVE NatStr(_)
NatStr(n) ==
    IF n < 10 THEN <<Digits[n + 1]>>
    ELSE NatStr(n \div 10) \o <<Digits[(n % 10) + 1]>>

RECURSIVE PadZero(_, _)
PadZero(s, w) == IF Len(s) >= w THEN s ELSE PadZero(<<"0">> \o s, w)

\* str(default) for the defaults the callers pass: None, a bool, an int,
\* a non-negative float
str(d) ==
    CASE d.type = "none"  -> <<"N","o","n","e">>
      [] d.type = "bool"  -> IF d.val THEN <<"T","r","u","e">>
                             ELSE <<"F","a","l","s","e">>
      [] d.type = "int"   -> IF d.val < 0 THEN <<"-">> \o NatStr(-d.val)
                             ELSE NatStr(d.val)
      [] d.type = "float" ->
            NatStr(d.val[1] \div Pow10(d.val[2])) \o <<".">> \o
            (IF d.val[2] = 0 THEN <<"0">>
             ELSE PadZero(NatStr(d.val[1] % Pow10(d.val[2])), d.val[2]))
      [] d.type = "str"   -> d.val

PyNone     == [type |-> "none"]
PyBool(b)  == [type |-> "bool", val |-> b]
PyInt(n)   == [type |-> "int", val |-> n]
PyFloat(f) == [type |-> "float", val |-> f]
PyStr(s)   == [type |-> "str", val |-> s]

\* the number a numeric default denotes, as a float
NumberOf(d) == IF d.type = "int" THEN <<d.val, 0>> ELSE d.val

(***************************************************************************)
(* ClockSettings: the accessors.  A document is a function from the keys   *)
(* <<section, option>> it holds to raw values.                             *)
(***************************************************************************)
has_section(cfg, section) == \E k \in DOMAIN cfg : k[1] = section

has_option(cfg, k) == k \in DOMAIN cfg

\* ClockSettings.get: the raw value, or str(default)
get(cfg, k, default) ==
    IF ~has_section(cfg, k[1]) THEN str(default)
    ELSE IF ~has_option(cfg, k) THEN str(default)
    ELSE cfg[k]

\* ClockSettings.get_int: config.getint raises on a missing option and on a
\* value int() rejects; the bare except returns the default
get_int(cfg, k, default) ==
    IF has_option(cfg, k) /\ IntOk(cfg[k]) THEN IntVal(cfg[k]) ELSE default

\* ClockSettings.get_float: the part before the first ';', stripped
get_float(cfg, k, default) ==
    LET value == strip(splitFirst(get(cfg, k, PyStr(str(default))), ";"))
    IN  IF FloatOk(value) THEN FloatVal(value) ELSE NumberOf(default)

TruthyTexts ==
    { <<"t","r","u","e">>, <<"y","e","s">>, <<"1">>, <<"o","n">>, <<"t">> }

get_boolWholeValue(cfg, k, default) ==
    lower(strip(get(cfg, k, PyStr(str(PyBool(default)))))) \in TruthyTexts

\* ClockSettings.get_bool: membership of the stripped, lower-cased text
get_bool(cfg, k, default) ==
    LET value == lower(strip(splitFirst(get(cfg, k, PyStr(str(PyBool(default)))), ";")))
    IN  value \in TruthyTexts

White == <<255, 255, 255, 255>>

get_colorUnpadded(cfg, k) ==
    LET value  == strip(splitFirst(get(cfg, k, PyNone), ";"))
        fields == split(value, ",")
    IN  IF \A i \in 1..Len(fields) : IntOk(fields[i])
        THEN [i \in 1..Len(fields) |-> IntVal(fields[i])]
        ELSE White

\* ClockSettings.get_color: up to four integers, padded with 255
get_color(cfg, k) ==
    LET value  == strip(splitFirst(get(cfg, k, PyNone), ";"))
        fields == split(value, ",")
    IN  IF \A i \in 1..Len(fields) : IntOk(fields[i])
        THEN [i \in 1..4 |-> IF i <= Len(fields) THEN IntVal(fields[i]) ELSE 255]
        ELSE White

(***************************************************************************)
(* Documents and raw values of the bounded runs                            *)
(***************************************************************************)
AutoHide         == <<"behavior", "auto_hide">>
HideInFullscreen == <<"behavior", "hide_in_fullscreen">>
Keys             == {AutoHide, HideInFullscreen}
UnknownKey       == <<"nosuch", "key">>
LookupKeys       == Keys \cup {UnknownKey}

TextTrue  == <<"t","r","u","e">>
TextFalse == <<"f","a","l","s","e">>
BoolTexts == {TextTrue, TextFalse}

RawValues ==
    { TextTrue,
      <<"T","r","u","e"," ",";"," ","f">>,
      <<"m","a","y","b","e">>,
      <<"o","n">>,
      <<"1">>,
      <<"5">>,
      <<"5"," ",";"," ","c">>,
      <<"-","3">>,
      <<"1","2",".","5"," ",";"," ","n">>,
      <<"1","0",",","2","0",",","3","0">>,
      <<"1","0",",","2","0",",","3","0",",","4","0">>,
      <<"1","0",",","x",",","3","0">>,
      <<"1",",","2",",","3",",","4",",","5">>,
      <<>> }

Docs(keys, values) == UNION {[d -> values] : d \in SUBSET keys}

EmptyDoc == <<>>

IntDefaults   == {0, 7}
FloatDefaults == {PyInt(50), PyFloat(<<5, 1>>), PyFloat(<<0, 0>>)}

(***************************************************************************)
(* ClockSettings: file watching, load, watchers                            *)
(***************************************************************************)
\* ClockSettings._get_file_mtime
_get_file_mtime == IF fileExists THEN fileMtime ELSE 0

\* ConfigParser.read on a parser that already holds a document: sections
\* and options of the file are added or overwritten, the others are kept
read(cfg, f) ==
    [k \in (DOMAIN cfg) \cup (DOMAIN f) |-> IF k \in DOMAIN f THEN f[k] ELSE cfg[k]]

loadClearsWhenMissing(cfg) == IF ~fileExists THEN EmptyDoc ELSE read(cfg, file)

\* ClockSettings.load
load(cfg) == IF ~fileExists THEN cfg ELSE read(cfg, file)

add_watcherDup(ws, cb) == Append(ws, cb)

\* ClockSettings.add_watcher
add_watcher(ws, cb) == IF cb \notin Range(ws) THEN Append(ws, cb) ELSE ws

\* list.remove: drops the first occurrence
ListRemove(ws, cb) ==
    LET p == CHOOSE i \in 1..Len(ws) : ws[i] = cb /\ \A j \in 1..(i - 1) : ws[j] # cb
    IN  SubSeq(ws, 1, p - 1) \o SubSeq(ws, p + 1, Len(ws))

\* ClockSettings.remove_watcher
remove_watcher(ws, cb) == IF cb \in Range(ws) THEN ListRemove(ws, cb) ELSE ws

_notify_watchersNoCatch(ws, raisers, seen) ==
    LET bad == {i \in 1..Len(ws) : ws[i] \in raisers}
        n   == IF bad = {} THEN Len(ws) ELSE CHOOSE i \in bad : \A j \in bad : i <= j
    IN  [log |-> [i \in 1..n |-> [cb |-> ws[i], raised |-> ws[i] \in raisers, seen |-> seen]],
         escaped |-> bad # {}]

\* ClockSettings._notify_watchers: every watcher is called, in list order;
\* an exception of one is caught and logged, none escapes.  seen is the
\* store state a watcher finds when it is called.
_notify_watchers(ws, raisers, seen) ==
    [log |-> [i \in 1..Len(ws) |-> [cb |-> ws[i], raised |-> ws[i] \in raisers, seen |-> seen]],
     escaped |-> FALSE]

FileChangedGeq(current_mtime, lm) == current_mtime >= lm

\* the test of _check_file_changes
FileChanged(current_mtime, lm) == current_mtime > lm

ReloadNotifyFirst(cfg, ws, current_mtime, raisers) ==
    LET lm1  == current_mtime
        n    == _notify_watchers(ws, raisers, <<lm1, cfg>>)
        cfg1 == load(cfg)
    IN  [last_modified |-> lm1, config |-> cfg1, notified |-> n.log,
         reloaded |-> TRUE, escaped |-> n.escaped]

\* the body of the if in _check_file_changes, statement by statement
Reload(cfg, ws, current_mtime, raisers) ==
    LET lm1  == current_mtime
        cfg1 == load(cfg)
        n    == _notify_watchers(ws, raisers, <<lm1, cfg1>>)
    IN  [last_modified |-> lm1, config |-> cfg1, notified |-> n.log,
         reloaded |-> TRUE, escaped |-> n.escaped]

\* ClockSettings._check_file_changes on the store: what it leaves behind.
\* raisers are the watchers that raise in this round.
CheckFileChanges(cfg, lm, ws, raisers) ==
    LET current_mtime == _get_file_mtime
    IN  IF FileChanged(current_mtime, lm)
        THEN Reload(cfg, ws, current_mtime, raisers)
        ELSE [last_modified |-> lm, config |-> cfg, notified |-> <<>>,
              reloaded |-> FALSE, escaped |-> FALSE]

\* the except Exception around the body of _check_file_changes
OuterTryCatches == TRUE

\* ClockSettings._check_file_changes as a step of the store
_check_file_changes(raisers) ==
    LET r == CheckFileChanges(config, last_modified, watchers, raisers)
    IN  /\ last_modified' = r.last_modified
        /\ config' = r.config
        /\ notified' = r.notified
        /\ lastOp' = [op |-> "poll", reloaded |-> r.reloaded,
                      raised |-> (r.escaped /\ ~OuterTryCatches),
                      changes |-> pendingChanges]
        /\ UNCHANGED watchers

(***************************************************************************)
(* The environment: the settings file is edited, time passes               *)
(***************************************************************************)
\* 1 when writing doc now changes the content and advances the mtime
ContentChange(doc) ==
    IF (~fileExists \/ doc # file) /\ now > fileMtime THEN 1 ELSE 0

WriteFile(doc) ==
    /\ file' = doc
    /\ fileExists' = TRUE
    /\ fileMtime' = now
    /\ UNCHANGED <<text, now>>

DeleteFile ==
    /\ fileExists
    /\ fileExists' = FALSE
    /\ file' = EmptyDoc
    /\ UNCHANGED <<text, fileMtime, now>>

Tick ==
    /\ now < MaxTime
    /\ now' = now + 1
    /\ UNCHANGED <<file, text, fileExists, fileMtime>>

(***************************************************************************)
(* FloatingClock.  The window is a record c; a handler maps the window     *)
(* before it ran to the window after it, so that handlers calling each     *)
(* other (apply_settings -> show -> showEvent -> animate_opacity) compose  *)
(* in the order of the code.  c.started collects the end values of the     *)
(* animations started since the handler began.                             *)
(***************************************************************************)
\* platform.py: the import of AppKit succeeded.  main.py imports Foundation
\* unconditionally, so the application only runs where it did.
APPKIT_AVAILABLE == TRUE

Window ==
    [visible |-> visible, staysOnTop |-> staysOnTop,
     windowOpacity |-> windowOpacity, hidden |-> hidden,
     is_fullscreen_active |-> is_fullscreen_active, animState |-> animState,
     animValue |-> animValue, animEnd |-> animEnd,
     finishedSlots |-> finishedSlots, animCallback |-> animCallback,
     started |-> <<>>]

SetWindow(c) ==
    /\ visible' = c.visible
    /\ staysOnTop' = c.staysOnTop
    /\ windowOpacity' = c.windowOpacity
    /\ hidden' = c.hidden
    /\ is_fullscreen_active' = c.is_fullscreen_active
    /\ animState' = c.animState
    /\ animValue' = c.animValue
    /\ animEnd' = c.animEnd
    /\ finishedSlots' = c.finishedSlots
    /\ animCallback' = c.animCallback
    /\ started' = c.started

\* FloatingClock.animate_opacity: a running animation is stopped where it
\* is; the new one runs from the current opacity to end_value; on_finished
\* ("none" when absent) is connected to animation.finished
animate_opacity(c, end_value, on_finished) ==
    [c EXCEPT !.animState = "Running",
              !.animValue = c.windowOpacity,
              !.animEnd = end_value,
              !.finishedSlots = IF on_finished # "none" THEN Append(@, on_finished) ELSE @,
              !.animCallback = on_finished,
              !.started = Append(@, end_value)]

\* FloatingClock.showEvent
showEvent(c) == animate_opacity([c EXCEPT !.windowOpacity = 0], OpMax, "none")

\* QWidget.show: a window that is not visible becomes visible and gets a
\* show event
show(c) == IF c.visible THEN c ELSE showEvent([c EXCEPT !.visible = TRUE])

\* QWidget.hide
hide(c) == [c EXCEPT !.visible = FALSE]

\* QWidget.setVisible
setVisible(c, on) == IF on THEN show(c) ELSE hide(c)

AlwaysOnTop == <<"window", "always_on_top">>

\* ClockSettings._update_window_attributes: the flags are rebuilt with
\* WindowStaysOnTopHint taken from the store; setWindowFlags hides the
\* window; it is shown again when it was visible
_update_window_attributes(c, cfg) ==
    LET was_visible == c.visible
        c1 == [hide(c) EXCEPT !.staysOnTop = get_bool(cfg, AlwaysOnTop, TRUE)]
    IN  IF was_visible THEN show(c1) ELSE c1

\* ClockSettings.apply_settings
apply_settings(c, cfg) ==
    LET saved_opacity == c.windowOpacity
        c1 == hide(c)
        c2 == _update_window_attributes(c1, cfg)
        c3 == IF ~get_bool(cfg, AutoHide, TRUE) THEN [c2 EXCEPT !.hidden = FALSE] ELSE c2
        c4 == show(c3)
    IN  [c4 EXCEPT !.windowOpacity = saved_opacity]

check_mouse_proximityNoFlag(c, cfg, is_near) ==
    IF ~c.visible \/ ~get_bool(cfg, AutoHide, TRUE) THEN c
    ELSE IF is_near THEN [animate_opacity(c, 0, "none") EXCEPT !.hidden = TRUE]
    ELSE IF ~is_near /\ c.hidden THEN [animate_opacity(c, OpMax, "none") EXCEPT !.hidden = FALSE]
    ELSE c

\* FloatingClock.check_mouse_proximity; is_near is the outcome of the
\* rectangle test on the cursor position
check_mouse_proximity(c, cfg, is_near) ==
    IF ~c.visible \/ ~get_bool(cfg, AutoHide, TRUE) THEN c
    ELSE IF is_near /\ ~c.hidden THEN [animate_opacity(c, 0, "none") EXCEPT !.hidden = TRUE]
    ELSE IF ~is_near /\ c.hidden THEN [animate_opacity(c, OpMax, "none") EXCEPT !.hidden = FALSE]
    ELSE c

Detections == {"no_windows", "fullscreen", "normal"}

_check_fullscreenEveryTick(c, cfg, detection) ==
    IF ~APPKIT_AVAILABLE \/ ~get_bool(cfg, HideInFullscreen, TRUE)
    THEN setVisible([c EXCEPT !.is_fullscreen_active = FALSE], TRUE)
    ELSE IF detection = "no_windows" THEN c
    ELSE LET c1 == [c EXCEPT !.is_fullscreen_active = (detection = "fullscreen")]
         IN  IF c1.is_fullscreen_active
             THEN animate_opacity(c1, 0, "hide")
             ELSE animate_opacity(setVisible(c1, TRUE), OpMax, "none")

\* FloatingClock._check_fullscreen; detection is the outcome of the scan of
\* the on-screen windows ("no_windows": the list came back empty)
_check_fullscreen(c, cfg, detection) ==
    IF ~APPKIT_AVAILABLE \/ ~get_bool(cfg, HideInFullscreen, TRUE)
    THEN setVisible([c EXCEPT !.is_fullscreen_active = FALSE], TRUE)
    ELSE IF detection = "no_windows" THEN c
    ELSE LET was_fullscreen == c.is_fullscreen_active
             c1 == [c EXCEPT !.is_fullscreen_active = (detection = "fullscreen")]
         IN  IF was_fullscreen # c1.is_fullscreen_active
             THEN IF c1.is_fullscreen_active
                  THEN animate_opacity(c1, 0, "hide")
                  ELSE animate_opacity(setVisible(c1, TRUE), OpMax, "none")
             ELSE c1

\* The slots of animation.finished, called in connection order.  A slot is
\* lambda: (on_finished(), finished.disconnect()).  "hide" is
\* setVisible(False); the disconnect that follows removes every connection,
\* so the slots after it are not called.  "close" is super().closeEvent(event)
\* written inside a lambda: the zero-argument super() raises there, before
\* the disconnect, and the connection stays.
RECURSIVE RunSlots(_, _)
RunSlots(c, slots) ==
    IF slots = <<>> THEN c
    ELSE IF Head(slots) = "hide"
         THEN [setVisible(c, FALSE) EXCEPT !.finishedSlots = <<>>]
         ELSE RunSlots(c, Tail(slots))

\* QPropertyAnimation reaching its end: the end value is written, the state
\* becomes Stopped, finished is emitted
AnimationFinished(c) ==
    LET c1 == [c EXCEPT !.animState = "Stopped",
                        !.windowOpacity = c.animEnd,
                        !.animValue = c.animEnd]
    IN  [RunSlots(c1, c1.finishedSlots) EXCEPT !.animCallback = "none"]

\* one step of the running animation towards its end value
AnimationStep(c) ==
    LET v == IF c.animValue < c.animEnd THEN c.animValue + 1 ELSE c.animValue - 1
    IN  [c EXCEPT !.animValue = v, !.windowOpacity = v]

\* FloatingClock.closeEvent, the window's part
closeEvent(c) == animate_opacity(c, 0, "close")

\* the window FloatingClock.__init__ and main leave behind
Constructed(cfg) ==
    LET c0 == [visible |-> FALSE, staysOnTop |-> TRUE,
               windowOpacity |-> OpMax, hidden |-> FALSE,
               is_fullscreen_active |-> FALSE, animState |-> "Stopped",
               animValue |-> OpMax, animEnd |-> OpMax,
               finishedSlots |-> <<>>, animCallback |-> "none",
               started |-> <<>>]
        c1 == apply_settings(c0, cfg)
        c2 == show(c1)
        c3 == apply_settings(c2, cfg)
    IN  [show(c3) EXCEPT !.started = <<>>]

(***************************************************************************)
(* Initial states                                                          *)
(***************************************************************************)
NoRet == [op |-> "none"]

\* ClockSettings.__init__: a fresh parser reads the file if it exists
StoreInit ==
    /\ fileMtime = (IF fileExists THEN 1 ELSE 0)
    /\ now = 1
    /\ config = (IF fileExists THEN read(EmptyDoc, file) ELSE EmptyDoc)
    /\ last_modified = _get_file_mtime

\* FloatingClock.__init__ and main
ClockInit ==
    LET c == Constructed(config)
    IN  /\ visible = c.visible
        /\ staysOnTop = c.staysOnTop
        /\ windowOpacity = c.windowOpacity
        /\ hidden = c.hidden
        /\ is_fullscreen_active = c.is_fullscreen_active
        /\ animState = c.animState
        /\ animValue = c.animValue
        /\ animEnd = c.animEnd
        /\ finishedSlots = c.finishedSlots
        /\ animCallback = c.animCallback
        /\ timerActive = TRUE
        /\ mouseTimerActive = TRUE
        /\ fullscreenTimerActive =
              (APPKIT_AVAILABLE /\ get_bool(config, HideInFullscreen, TRUE))
        /\ fileWatcherActive = TRUE
        /\ trayVisible = TRUE
        /\ lambdas = 1
        /\ closeAccepted = FALSE
        /\ quitRequested = FALSE

HistInit ==
    /\ lastOp = [op |-> "init"]
    /\ notified = <<>>
    /\ started = <<>>
    /\ ret = NoRet
    /\ pendingChanges = 0

(***************************************************************************)
(* SpecAccessors: the typed accessors on every bounded document            *)
(***************************************************************************)
InitAccessors ==
    /\ file \in Docs(Keys, RawValues)
    /\ text = <<>>
    /\ fileExists = TRUE
    /\ StoreInit
    /\ watchers = <<>>
    /\ ClockInit
    /\ HistInit

Returns(r) ==
    /\ ret' = r
    /\ lastOp' = [op |-> r.op]
    /\ UNCHANGED <<fileVars, storeVars, clockVars, notified, started, pendingChanges>>

CallGetInt ==
    \E k \in LookupKeys, d \in IntDefaults :
        Returns([op |-> "get_int", key |-> k, default |-> d,
                 value |-> get_int(config, k, d)])

CallGetFloat ==
    \E k \in LookupKeys, d \in FloatDefaults :
        Returns([op |-> "get_float", key |-> k, default |-> NumberOf(d),
                 value |-> get_float(config, k, d)])

CallGetBool ==
    \E k \in LookupKeys, d \in BOOLEAN :
        Returns([op |-> "get_bool", key |-> k, default |-> d,
                 value |-> get_bool(config, k, d)])

CallGetColor ==
    \E k \in LookupKeys :
        Returns([op |-> "get_color", key |-> k, default |-> White,
                 value |-> get_color(config, k)])

NextAccessors == CallGetInt \/ CallGetFloat \/ CallGetBool \/ CallGetColor

SpecAccessors == InitAccessors /\ [][NextAccessors]_vars

(***************************************************************************)
(* SpecStore: ClockSettings and its file, driven by any client             *)
(***************************************************************************)
Callbacks == 1..NumCallbacks

StoreDocs == Docs({AutoHide}, BoolTexts)

InitStore ==
    /\ fileExists \in BOOLEAN
    /\ file \in (IF fileExists THEN StoreDocs ELSE {EmptyDoc})
    /\ text = <<>>
    /\ StoreInit
    /\ watchers = <<>>
    /\ ClockInit
    /\ HistInit

StoreFrame == UNCHANGED <<clockVars, started, ret>>

StoreWrite ==
    \E doc \in StoreDocs :
        /\ WriteFile(doc)
        /\ pendingChanges' = pendingChanges + ContentChange(doc)
        /\ lastOp' = [op |-> "edit"]
        /\ notified' = <<>>
        /\ UNCHANGED storeVars
        /\ StoreFrame

StoreDelete ==
    /\ DeleteFile
    /\ lastOp' = [op |-> "edit"]
    /\ notified' = <<>>
    /\ UNCHANGED <<storeVars, pendingChanges>>
    /\ StoreFrame

StoreTick ==
    /\ Tick
    /\ lastOp' = [op |-> "tick"]
    /\ notified' = <<>>
    /\ UNCHANGED <<storeVars, pendingChanges>>
    /\ StoreFrame

\* a client calls load()
StoreLoad ==
    /\ config' = load(config)
    /\ lastOp' = [op |-> "load", existed |-> fileExists]
    /\ notified' = <<>>
    /\ UNCHANGED <<fileVars, last_modified, watchers, pendingChanges>>
    /\ StoreFrame

\* the file_watcher timer fires
StorePoll ==
    \E raisers \in SUBSET Callbacks :
        /\ _check_file_changes(raisers)
        /\ pendingChanges' = 0
        /\ UNCHANGED fileVars
        /\ StoreFrame

StoreAdd ==
    \E cb \in Callbacks :
        /\ watchers' = add_watcher(watchers, cb)
        /\ lastOp' = [op |-> "add_watcher", cb |-> cb, present |-> cb \in Range(watchers)]
        /\ notified' = <<>>
        /\ UNCHANGED <<fileVars, config, last_modified, pendingChanges>>
        /\ StoreFrame

StoreRemove ==
    \E cb \in Callbacks :
        /\ watchers' = remove_watcher(watchers, cb)
        /\ lastOp' = [op |-> "remove_watcher", cb |-> cb, present |-> cb \in Range(watchers)]
        /\ notified' = <<>>
        /\ UNCHANGED <<fileVars, config, last_modified, pendingChanges>>
        /\ StoreFrame

NextStore ==
    \/ StoreWrite
    \/ StoreDelete
    \/ StoreTick
    \/ StoreLoad
    \/ StorePoll
    \/ StoreAdd
    \/ StoreRemove

SpecStore == InitStore /\ [][NextStore]_vars

(***************************************************************************)
(* Spec: the application.  The one watcher of the store is the closure     *)
(* lambda: self.settings.apply_settings(self) registered by                *)
(* FloatingClock.__init__; closure objects are numbered in the order they  *)
(* are created, and two closures are equal only if they are the same one.  *)
(***************************************************************************)
AppDocs == [Keys -> BoolTexts]

ConstructorLambda == 1

Init ==
    /\ file \in AppDocs
    /\ text = <<>>
    /\ fileExists = TRUE
    /\ StoreInit
    /\ watchers = add_watcher(<<>>, ConstructorLambda)
    /\ ClockInit
    /\ HistInit

\* the event loop runs until QApplication.quit() is called
Running == ~quitRequested

restVars == <<timerActive, mouseTimerActive, fullscreenTimerActive,
              fileWatcherActive, trayVisible, lambdas, closeAccepted, quitRequested>>

AppWrite ==
    \E doc \in AppDocs :
        /\ Running
        /\ WriteFile(doc)
        /\ lastOp' = [op |-> "edit"]
        /\ notified' = <<>>
        /\ started' = <<>>
        /\ UNCHANGED <<storeVars, clockVars, ret, pendingChanges>>

AppTick ==
    /\ Running
    /\ Tick
    /\ lastOp' = [op |-> "tick"]
    /\ notified' = <<>>
    /\ started' = <<>>
    /\ UNCHANGED <<storeVars, clockVars, ret, pendingChanges>>

\* every registered watcher is a closure that calls apply_settings
RECURSIVE RunWatchers(_, _, _)
RunWatchers(c, n, cfg) ==
    IF n = 0 THEN c ELSE RunWatchers(apply_settings(c, cfg), n - 1, cfg)

\* the file_watcher timer fires: _check_file_changes, and through the
\* watcher apply_settings on the window
AppPoll ==
    /\ Running
    /\ fileWatcherActive
    /\ _check_file_changes({})
    /\ LET r == CheckFileChanges(config, last_modified, watchers, {})
       IN  SetWindow(IF r.reloaded
                     THEN RunWatchers(Window, Len(r.notified), r.config)
                     ELSE Window)
    /\ UNCHANGED <<fileVars, restVars, ret, pendingChanges>>

\* the animation timer fires before the end value is reached
AnimStep ==
    /\ Running
    /\ animState = "Running"
    /\ animValue # animEnd
    /\ SetWindow(AnimationStep(Window))
    /\ lastOp' = [op |-> "animation_step"]
    /\ notified' = <<>>
    /\ UNCHANGED <<fileVars, storeVars, restVars, ret, pendingChanges>>

\* the animation reaches its end value
AnimFinish ==
    /\ Running
    /\ animState = "Running"
    /\ animValue = animEnd
    /\ SetWindow(AnimationFinished(Window))
    /\ lastOp' = [op |-> "animation_finished", slots |-> finishedSlots]
    /\ notified' = <<>>
    /\ UNCHANGED <<fileVars, storeVars, restVars, ret, pendingChanges>>

\* the mouse_timer fires
ProximityTimer ==
    \E is_near \in BOOLEAN :
        /\ Running
        /\ mouseTimerActive
        /\ SetWindow(check_mouse_proximity(Window, config, is_near))
        /\ lastOp' = [op |-> "check_mouse_proximity", is_near |-> is_near,
                      was_visible |-> visible, was_hidden |-> hidden]
        /\ notified' = <<>>
        /\ UNCHANGED <<fileVars, storeVars, restVars, ret, pendingChanges>>

\* the fullscreen_timer fires
FullscreenTimer ==
    \E detection \in Detections :
        LET c == _check_fullscreen(Window, config, detection)
        IN  /\ Running
            /\ fullscreenTimerActive
            /\ Len(c.finishedSlots) <= MaxSlots
            /\ SetWindow(c)
            /\ lastOp' = [op |-> "_check_fullscreen", detection |-> detection,
                          was_fullscreen |-> is_fullscreen_active,
                          was_visible |-> visible,
                          slots |-> finishedSlots]
            /\ notified' = <<>>
            /\ UNCHANGED <<fileVars, storeVars, restVars, ret, pendingChanges>>

\* the tray's Quit: quit_tray_application -> clock.close() -> closeEvent.
\* closeEvent starts the fade, ignores the event, hides the tray, stops its
\* three timers, calls remove_watcher with a closure it has just created,
\* then calls super().closeEvent(event), which accepts the event (so that
\* close() hides the window), and QApplication.quit().
QuitTray ==
    LET on_finished == lambdas + 1
        to_remove   == lambdas + 2
        c           == closeEvent(Window)
    IN  /\ Running
        /\ SetWindow(hide(c))
        /\ trayVisible' = FALSE
        /\ timerActive' = FALSE
        /\ mouseTimerActive' = FALSE
        /\ fullscreenTimerActive' = FALSE
        /\ watchers' = remove_watcher(watchers, to_remove)
        /\ lambdas' = to_remove
        /\ closeAccepted' = TRUE
        /\ quitRequested' = TRUE
        /\ lastOp' = [op |-> "closeEvent", registered |-> ConstructorLambda]
        /\ notified' = <<>>
        /\ UNCHANGED <<fileVars, config, last_modified, fileWatcherActive, ret, pendingChanges>>

Next ==
    \/ AppWrite
    \/ AppTick
    \/ AppPoll
    \/ AnimStep
    \/ AnimFinish
    \/ ProximityTimer
    \/ FullscreenTimer
    \/ QuitTray

Spec == Init /\ [][Next]_vars

(***************************************************************************)
(* Claims on the accessors (SpecAccessors)                                 *)
(***************************************************************************)
FalsyTexts ==
    { TextFalse, <<"n","o">>, <<"0">>, <<"o","f","f">>, <<"f">> }

Absent(k) == k \notin DOMAIN config

CommentFree(raw) == strip(splitFirst(raw, ";"))

\* the raw value of k cannot be read as the type the accessor op returns
Malformed(op, k) ==
    CASE op = "get_int"   -> ~IntOk(config[k])
      [] op = "get_float" -> ~FloatOk(CommentFree(config[k]))
      [] op = "get_bool"  -> lower(CommentFree(config[k])) \notin TruthyTexts \cup FalsyTexts
      [] op = "get_color" ->
            \E f \in Range(split(CommentFree(config[k]), ",")) : ~IntOk(f)

\* C1: on an absent or malformed value every typed accessor (get_int,
\* get_float, get_bool, get_color) returns exactly the default of the call;
\* get_bool(.., True) on "maybe" returns True.
C1_AccessorReturnsDefault ==
    (ret.op # "none" /\ (Absent(ret.key) \/ Malformed(ret.op, ret.key)))
        => ret.value = ret.default

(***************************************************************************)
(* Claims on the store (SpecStore)                                         *)
(***************************************************************************)
\* C2: after a load() on an existing file the document equals the file's
\* content: every lookup gives what the file gives, and a key deleted from
\* the file gives the caller's default.
C2_LoadReplacesDocument ==
    (lastOp.op = "load" /\ lastOp.existed)
        => \A k \in LookupKeys : get(config, k, PyNone) = get(file, k, PyNone)

\* C3 as claimed: the reloads of a poll tick are as many as the content
\* changes of the file since the tick before.
C3_ReloadOncePerChange ==
    lastOp.op = "poll" => (IF lastOp.reloaded THEN 1 ELSE 0) = lastOp.changes

\* C3 as amended: a poll tick reloads exactly when the file's modification
\* time is greater than last_modified, and then once, however many writes
\* came before it; after the tick the store has caught up, so a further
\* tick reloads only after the modification time has advanced again; writes
\* alone never reload.
C3_ReloadOncePerAdvance ==
    [][ /\ lastOp'.op = "poll" =>
            /\ lastOp'.reloaded <=> (_get_file_mtime > last_modified)
            /\ lastOp'.reloaded => last_modified' = _get_file_mtime
            /\ ~lastOp'.reloaded => UNCHANGED <<last_modified, config>> /\ notified' = <<>>
            /\ _get_file_mtime' <= last_modified'
        /\ lastOp'.op \in {"edit", "tick"} =>
            UNCHANGED <<last_modified, config>> /\ notified' = <<>>
      ]_vars

C3_Witness ==
    lastOp.op = "poll" /\ lastOp.reloaded /\ lastOp.changes = 2

\* C4: a poll tick that finds the modification time greater than
\* last_modified sets last_modified, then loads, then calls every watcher
\* once in registration order (each watcher finds the new last_modified and
\* the loaded document); any other tick changes nothing and calls nobody.
C4_PollOrder ==
    [][ lastOp'.op = "poll" =>
            IF _get_file_mtime > last_modified
            THEN /\ last_modified' = _get_file_mtime
                 /\ config' = load(config)
                 /\ Len(notified') = Len(watchers)
                 /\ \A i \in 1..Len(watchers) :
                        /\ notified'[i].cb = watchers[i]
                        /\ notified'[i].seen = <<_get_file_mtime, load(config)>>
                 /\ watchers' = watchers
            ELSE /\ UNCHANGED <<last_modified, config, watchers>>
                 /\ notified' = <<>>
      ]_vars

C4_Witness ==
    /\ lastOp.op = "poll"
    /\ lastOp.reloaded
    /\ Len(notified) = 2
    /\ notified[1].seen[2] = config
    /\ config # EmptyDoc

\* C5: when a watcher raises during a notification round, every watcher
\* registered after it is still called exactly once in that round, the
\* store is left as a round without the exception leaves it, and the poll
\* callback does not raise.
C5_WatcherExceptionContained ==
    [][ (lastOp'.op = "poll" /\ lastOp'.reloaded) =>
            LET quiet == CheckFileChanges(config, last_modified, watchers, {})
            IN  /\ \A i \in 1..Len(watchers) :
                       Cardinality({j \in 1..Len(notified') :
                                       notified'[j].cb = watchers[i]}) = 1
                /\ [j \in 1..Len(notified') |-> notified'[j].cb] = watchers
                /\ last_modified' = quiet.last_modified
                /\ config' = quiet.config
                /\ watchers' = watchers
                /\ ~lastOp'.raised
      ]_vars

C5_Witness ==
    /\ lastOp.op = "poll"
    /\ Len(notified) = 2
    /\ notified[1].raised
    /\ ~notified[2].raised

NoDuplicates(ws) == \A i, j \in 1..Len(ws) : ws[i] = ws[j] => i = j

\* C6: the watcher list holds each callback at most once; add_watcher of a
\* registered callback and remove_watcher of an unregistered one leave the
\* list as it is; add_watcher of a new callback appends it; remove_watcher
\* of a registered one removes it and keeps the order of the rest; a
\* registered callback stays until remove_watcher is called with it.
C6_WatcherListIsASet ==
    [][ /\ NoDuplicates(watchers)
        /\ NoDuplicates(watchers')
        /\ (lastOp'.op = "add_watcher" /\ lastOp'.cb \in Range(watchers))
             => watchers' = watchers
        /\ (lastOp'.op = "add_watcher" /\ lastOp'.cb \notin Range(watchers))
             => watchers' = Append(watchers, lastOp'.cb)
        /\ (lastOp'.op = "remove_watcher" /\ lastOp'.cb \notin Range(watchers))
             => watchers' = watchers
        /\ (lastOp'.op = "remove_watcher" /\ lastOp'.cb \in Range(watchers))
             => /\ lastOp'.cb \notin Range(watchers')
                /\ watchers' = SelectSeq(watchers, LAMBDA w : w # lastOp'.cb)
        /\ \A cb \in Range(watchers) :
             (~(lastOp'.op = "remove_watcher" /\ lastOp'.cb = cb))
                 => cb \in Range(watchers')
      ]_vars

C6_Witness ==
    /\ lastOp.op = "add_watcher"
    /\ lastOp.present
    /\ Len(watchers) = NumCallbacks

(***************************************************************************)
(* Claims on the application (Spec)                                        *)
(***************************************************************************)
\* C7: after closeEvent has run, the watcher the window registered at
\* construction is no longer in the store's watcher list.
C7_CloseRemovesWatcher ==
    lastOp.op = "closeEvent" => lastOp.registered \notin Range(watchers)

FadeOutFinished == animState = "Stopped" /\ windowOpacity = 0

\* C8: the window is closed and the application told to quit only after
\* the fade to 0 has finished.
C8_QuitAfterFade ==
    (closeAccepted \/ quitRequested) => FadeOutFinished

Last(q) == q[Len(q)]

FadesOutThenHides ==
    /\ animState = "Running"
    /\ animEnd = 0
    /\ finishedSlots = Append(lastOp.slots, "hide")
    /\ visible = lastOp.was_visible

\* ... on a transition to not active: the window is shown and is at, or on
\* its way to, full opacity
ShownAndFadingIn ==
    /\ visible
    /\ \/ animState = "Running" /\ animEnd = OpMax
       \/ animState = "Stopped" /\ windowOpacity = OpMax

\* ... without a transition: no animation started, visibility untouched
LeftAlone == started = <<>> /\ visible = lastOp.was_visible

RECURSIVE Settle(_)
Settle(c) ==
    IF c.animState # "Running" THEN c
    ELSE IF c.animValue = c.animEnd THEN AnimationFinished(c)
    ELSE Settle(AnimationStep(c))

\* C11: once apply_settings (here called by the settings watcher on a
\* reload) has returned and the animation it caused has finished, the
\* window opacity is the one the window had when apply_settings started,
\* which is the one apply_settings wrote back before it returned.
C11_ApplyPreservesOpacity ==
    (lastOp.op = "poll" /\ lastOp.reloaded /\ Len(notified) > 0)
        => Settle(Window).windowOpacity = windowOpacity

(***************************************************************************)
(* settings.ini as text.  A line is a sequence of characters with its      *)
(* newline; section and option names are spelled out so that the lines of  *)
(* the file and the keys of a document can be told to be the same name.    *)
(***************************************************************************)
Spell ==
    ("behavior" :> <<"b","e","h","a","v","i","o","r">>) @@
    ("window" :> <<"w","i","n","d","o","w">>) @@
    ("auto_hide" :> <<"a","u","t","o","_","h","i","d","e">>) @@
    ("hide_in_fullscreen" :> <<"h","i","d","e","_","i","n","_","f","u","l","l","s","c","r","e","e","n">>) @@
    ("always_on_top" :> <<"a","l","w","a","y","s","_","o","n","_","t","o","p">>)

\* the name a run of characters spells ("?" for a name outside the table)
Intern(s) ==
    IF \E n \in DOMAIN Spell : Spell[n] = s
    THEN CHOOSE n \in DOMAIN Spell : Spell[n] = s
    ELSE "?"

\* positions of the characters of seps in s
Positions(s, seps) == {i \in 1..Len(s) : s[i] \in seps}

Min(S) == CHOOSE i \in S : \A j \in S : i <= j

Max(S) == CHOOSE i \in S : \A j \in S : i >= j

\* s.split(sep, 1)[1]: what follows the first separator
splitRest(s, seps) == SubSeq(s, Min(Positions(s, seps)) + 1, Len(s))

\* what precedes the first of the separators
splitHead(s, seps) ==
    IF Positions(s, seps) = {} THEN s ELSE SubSeq(s, 1, Min(Positions(s, seps)) - 1)

\* ConfigParser's SECTCRE on a stripped line: "[", a header, "]"
IsHeader(value) ==
    /\ Len(value) >= 3
    /\ value[1] = "["
    /\ \E j \in 3..Len(value) : value[j] = "]"

Header(value) == SubSeq(value, 2, Max(Positions(value, {"]"})) - 1)

\* full-line comments and blank lines, which ConfigParser skips
IsSkipped(value) == value = <<>> \/ value[1] \in {"#", ";"}

\* ConfigParser.read of a file given as lines into an empty parser: the
\* section header in force, option = text before the first "=" or ":",
\* right-stripped and lower-cased, value = the rest, stripped.  Inline
\* comments stay in the value.  The lines start at column 0, so none is a
\* continuation of the value before it.
RECURSIVE iniRead(_, _, _)
iniRead(lines, sect, doc) ==
    IF lines = <<>> THEN doc
    ELSE LET value == strip(Head(lines))
         IN  IF IsSkipped(value) THEN iniRead(Tail(lines), sect, doc)
             ELSE IF IsHeader(value)
                  THEN iniRead(Tail(lines), Intern(Header(value)), doc)
                  ELSE LET k == <<sect, Intern(lower(strip(splitHead(value, {"=", ":"}))))>>
                           v == strip(splitRest(value, {"=", ":"}))
                       IN  iniRead(Tail(lines), sect,
                                   [x \in (DOMAIN doc) \cup {k} |->
                                       IF x = k THEN v ELSE doc[x]])

\* the keys the option lines of a file define, with repetitions
RECURSIVE iniKeys(_, _)
iniKeys(lines, sect) ==
    IF lines = <<>> THEN <<>>
    ELSE LET value == strip(Head(lines))
         IN  IF IsSkipped(value) THEN iniKeys(Tail(lines), sect)
             ELSE IF IsHeader(value)
                  THEN <<<<"[", Intern(Header(value)), "]">>>> \o iniKeys(Tail(lines), Intern(Header(value)))
                  ELSE <<<<sect, Intern(lower(strip(splitHead(value, {"=", ":"}))))>>>>
                       \o iniKeys(Tail(lines), sect)

\* the parser (strict) accepts the file: no option line comes before the
\* first section header, no section and no option of a section occurs twice
ParseOk(lines) ==
    LET keys == iniKeys(lines, "?")
    IN  /\ \A i \in 1..Len(keys) : keys[i][1] # "?"
        /\ \A i, j \in 1..Len(keys) : keys[i] = keys[j] => i = j

(***************************************************************************)
(* The tray menu: toggle_tray_setting                                      *)
(***************************************************************************)
\* the line toggle_tray_setting writes in place of a stripped line
toggledLine(line, value) ==
    LET base    == splitHead(splitHead(line, {";"}), {"="})
        comment == IF Positions(line, {";"}) # {}
                   THEN <<";">> \o splitRest(line, {";"}) ELSE <<>>
    IN  base \o <<"=", " ">> \o lower(str(PyBool(value))) \o comment \o <<"\n">>

\* the loop of toggle_tray_setting from line i on: section headers update
\* current_section; the first line of the section whose text before "="
\* is the key is rewritten and the loop ends
RECURSIVE toggleFrom(_, _, _, _, _, _)
toggleFrom(lines, i, current_section, key, section, value) ==
    IF i > Len(lines) THEN lines
    ELSE LET line == strip(lines[i])
         IN  IF line # <<>> /\ line[1] = "[" /\ line[Len(line)] = "]"
             THEN toggleFrom(lines, i + 1, SubSeq(line, 2, Len(line) - 1),
                             key, section, value)
             ELSE IF current_section = section /\ strip(splitHead(line, {"="})) = key
                  THEN [lines EXCEPT ![i] = toggledLine(line, value)]
                  ELSE toggleFrom(lines, i + 1, current_section, key, section, value)

\* toggle_tray_setting, the window's part: always_on_top rebuilds the
\* window flags from the store; auto_hide sets hidden and, when switched
\* off, full opacity
toggleWindow(c, cfg, k, value) ==
    IF k = AlwaysOnTop THEN _update_window_attributes(c, cfg)
    ELSE IF k = AutoHide
         THEN [c EXCEPT !.hidden = ~value,
                        !.windowOpacity = IF ~value THEN OpMax ELSE @]
         ELSE c

LineBehavior == <<"[","b","e","h","a","v","i","o","r","]","\n">>
LineWindow == <<"[","w","i","n","d","o","w","]","\n">>
LineAutoHide == <<"a","u","t","o","_","h","i","d","e"," ","="," ","t","r","u","e","\n">>
LineAutoHideComment == <<"a","u","t","o","_","h","i","d","e"," ","="," ","f","a","l","s","e"," ",";"," ","c","\n">>
LineHideInFullscreen == <<"h","i","d","e","_","i","n","_","f","u","l","l","s","c","r","e","e","n","=","t","r","u","e","\n">>
LineAlwaysOnTop == <<"a","l","w","a","y","s","_","o","n","_","t","o","p"," ","="," ","t","r","u","e","\n">>
LineComment == <<"#"," ","n","\n">>
LineBlank == <<"\n">>

ToggleLines ==
    {LineBehavior, LineWindow, LineAutoHide, LineAutoHideComment,
     LineHideInFullscreen, LineAlwaysOnTop, LineComment, LineBlank}

MaxLines == 3

ToggleFiles ==
    {f \in UNION {[1..n -> ToggleLines] : n \in 1..MaxLines} : ParseOk(f)}

ToggleKeys == {AlwaysOnTop, HideInFullscreen, AutoHide}

(***************************************************************************)
(* SpecToggle: the application with its tray toggles                       *)
(***************************************************************************)
InitToggle ==
    /\ text \in ToggleFiles
    /\ file = iniRead(text, "?", EmptyDoc)
    /\ fileExists = TRUE
    /\ StoreInit
    /\ watchers = add_watcher(<<>>, ConstructorLambda)
    /\ ClockInit
    /\ HistInit

\* a toggle is chosen in the tray menu: toggle_tray_setting reads the
\* lines, rewrites the key's line, writes the lines back, then updates
\* the window
ToggleTray ==
    \E k \in ToggleKeys, value \in BOOLEAN :
        /\ Running
        /\ text' = toggleFrom(text, 1, <<>>, Spell[k[2]], Spell[k[1]], value)
        /\ file' = iniRead(text', "?", EmptyDoc)
        /\ fileMtime' = now
        /\ SetWindow(toggleWindow(Window, config, k, value))
        /\ lastOp' = [op |-> "toggle_tray_setting", key |-> k, value |-> value]
        /\ notified' = <<>>
        /\ UNCHANGED <<fileExists, now, storeVars, restVars, ret, pendingChanges>>

NextToggle ==
    \/ ToggleTray
    \/ AppTick
    \/ AppPoll

SpecToggle == InitToggle /\ [][NextToggle]_vars

(***************************************************************************)
(* Claims on the tray toggles (SpecToggle)                                 *)
(***************************************************************************)
\* the section in force at line i of a file, as the parser sees it
SectAt(lines, i) ==
    LET hs == {j \in 1..(i - 1) : IsHeader(strip(lines[j]))}
    IN  IF hs = {} THEN "?" ELSE Intern(Header(strip(lines[Max(hs)])))

\* line i of the file is the line of key k
DefinesKey(lines, i, k) ==
    LET value == strip(lines[i])
    IN  /\ ~IsSkipped(value)
        /\ ~IsHeader(value)
        /\ SectAt(lines, i) = k[1]
        /\ Intern(lower(strip(splitHead(value, {"=", ":"})))) = k[2]

\* a line with nothing but its value changed: the value is what stands
\* between the delimiter and the inline comment, without the blanks around
ValueReplaced(line, new) ==
    LET d     == Min(Positions(line, {"=", ":"}))
        semis == {i \in Positions(line, {";"}) : i > d}
        c     == IF semis = {} THEN Len(line) + 1 ELSE Min(semis)
        field == {i \in (d + 1)..(c - 1) : ~IsSpace(line[i])}
    IN  IF field = {}
        THEN SubSeq(line, 1, d) \o new \o SubSeq(line, d + 1, Len(line))
        ELSE SubSeq(line, 1, Min(field) - 1) \o new \o SubSeq(line, Max(field) + 1, Len(line))

\* C12: toggle_tray_setting leaves every line but the key's line as it is;
\* on the key's line only the value changes (key text, leading blanks, the
\* inline comment and the blanks before it stay); reading the file
\* afterwards gives the new value for the key and the old values for the
\* other keys.
C12_ToggleRewritesOnlyTheValue ==
    [][ lastOp'.op = "toggle_tray_setting" =>
            LET k      == lastOp'.key
                value  == lastOp'.value
                new    == IF value THEN TextTrue ELSE TextFalse
                before == iniRead(text, "?", EmptyDoc)
                after  == iniRead(text', "?", EmptyDoc)
            IN  /\ Len(text') = Len(text)
                /\ \A i \in 1..Len(text) :
                       text'[i] = IF DefinesKey(text, i, k)
                                  THEN ValueReplaced(text[i], new)
                                  ELSE text[i]
                /\ DOMAIN after = DOMAIN before
                /\ \A x \in DOMAIN before :
                       IF x = k THEN get_bool(after, k, ~value) = value
                       ELSE after[x] = before[x]
      ]_vars

\* C13: when the toggle handler returns, the new value is in the settings
\* file, it is what the store's get_bool returns whatever the default, and
\* the window state the handler applied (the stay-on-top flag for
\* always_on_top) is the one of the new value; also when the file had no
\* line for the key.
C13_ToggleTakesEffect ==
    lastOp.op = "toggle_tray_setting" =>
        /\ get_bool(file, lastOp.key, ~lastOp.value) = lastOp.value
        /\ \A default \in BOOLEAN :
               get_bool(config, lastOp.key, default) = lastOp.value
        /\ lastOp.key = AlwaysOnTop => staysOnTop = lastOp.value

(***************************************************************************)
(* More claims on the accessors (SpecAccessors)                            *)
(***************************************************************************)
\* the fields of a raw value read as a colour: the text before the first
\* ";", split at the commas
ColorFields(raw) == split(CommentFree(raw), ",")

\* C14: get_color on a list of 1 to 4 integers returns them left to right
\* with every missing channel 255; on a value with a component that is not
\* an integer, or on an absent key, it returns (255,255,255,255); the
\* result always has exactly 4 components.
C14_GetColor ==
    ret.op = "get_color" =>
        /\ Len(ret.value) = 4
        /\ Absent(ret.key) => ret.value = White
        /\ ~Absent(ret.key) =>
             LET f == ColorFields(config[ret.key])
             IN  /\ (\E i \in 1..Len(f) : ~IntOk(f[i])) => ret.value = White
                 /\ (Len(f) <= 4 /\ \A i \in 1..Len(f) : IntOk(f[i]))
                      => ret.value = [i \in 1..4 |-> IF i <= Len(f) THEN IntVal(f[i]) ELSE 255]

C14_Witness ==
    /\ ret.op = "get_color"
    /\ ~Absent(ret.key)
    /\ Len(ColorFields(config[ret.key])) = 3
    /\ ret.value = <<10, 20, 30, 255>>

TrueWords ==
    { <<"t","r","u","e">>, <<"y","e","s">>, <<"1">>, <<"o","n">>, <<"t">> }

\* the document with the raw value of k cut down to what precedes its
\* first ";", trimmed
WithoutComment(cfg, k) == [cfg EXCEPT ![k] = CommentFree(cfg[k])]

\* C15: get_float and get_bool give on a raw value "v ; c" what they give
\* on "v" ("12.5 ; n" gives 12.5, "True ; f" gives True), and get_bool is
\* true exactly when the part before the first ";", trimmed and
\* lower-cased, is one of true, yes, 1, on, t.
C15_CommentIgnored ==
    (ret.op \in {"get_float", "get_bool"} /\ ~Absent(ret.key)) =>
        LET k   == ret.key
            raw == config[k]
        IN  /\ ret.op = "get_float" =>
                 /\ ret.value = get_float(WithoutComment(config, k), k, PyFloat(ret.default))
                 /\ raw = <<"1","2",".","5"," ",";"," ","n">> => ret.value = <<125, 1>>
            /\ ret.op = "get_bool" =>
                 /\ ret.value = get_bool(WithoutComment(config, k), k, ret.default)
                 /\ ret.value <=> (lower(CommentFree(raw)) \in TrueWords)
                 /\ raw = <<"T","r","u","e"," ",";"," ","f">> => ret.value = TRUE

C15_Witness ==
    /\ ret.op = "get_bool"
    /\ ~Absent(ret.key)
    /\ config[ret.key] = <<"T","r","u","e"," ",";"," ","f">>
    /\ ~ret.default
    /\ ret.value

(***************************************************************************)
(* ClockGeometry.  dpi_scale is a float; the scales of the bounded runs    *)
(* are multiples of one half, held as the number of halves.                *)
(***************************************************************************)
\* int(x * dpi_scale): the product truncated towards zero
ScaledInt(x, halves) ==
    IF x * halves >= 0 THEN (x * halves) \div 2 ELSE -((-(x * halves)) \div 2)

Abs(x) == IF x < 0 THEN -x ELSE x

Larger(a, b) == IF a >= b THEN a ELSE b

base_padding == 10

\* ClockGeometry.calculate_padding
calculate_padding(dpi_scale) == ScaledInt(base_padding, dpi_scale)

\* ClockGeometry.calculate_shadow_space
calculate_shadow_space(blur, offset_x, offset_y, dpi_scale) ==
    LET b  == ScaledInt(blur, dpi_scale)
        ox == ScaledInt(offset_x, dpi_scale)
        oy == ScaledInt(offset_y, dpi_scale)
    IN  <<Larger(Abs(ox), b) * 2, Larger(Abs(oy), b) * 2>>

ShadowEnabled == <<"styling", "shadow_enabled">>
ShadowBlur    == <<"styling", "shadow_blur">>
ShadowOffsetX == <<"styling", "shadow_offset_x">>
ShadowOffsetY == <<"styling", "shadow_offset_y">>

Fallback == <<100, 50>>

calculate_total_sizeAlwaysShadow(cfg, text_size, dpi_scale, raises) ==
    IF raises THEN Fallback
    ELSE LET padding == calculate_padding(dpi_scale)
             shadow  == calculate_shadow_space(get_int(cfg, ShadowBlur, 2),
                                               get_int(cfg, ShadowOffsetX, 2),
                                               get_int(cfg, ShadowOffsetY, 2),
                                               dpi_scale)
         IN  <<text_size[1] + padding * 2 + shadow[1],
               text_size[2] + padding * 2 + shadow[2]>>

\* ClockGeometry.calculate_total_size; text_size is what calculate_text_size
\* returns for the text, raises tells that the font metrics raised
calculate_total_size(cfg, text_size, dpi_scale, raises) ==
    IF raises THEN Fallback
    ELSE LET padding == calculate_padding(dpi_scale)
             shadow  == IF get_bool(cfg, ShadowEnabled, TRUE)
                        THEN calculate_shadow_space(get_int(cfg, ShadowBlur, 2),
                                                    get_int(cfg, ShadowOffsetX, 2),
                                                    get_int(cfg, ShadowOffsetY, 2),
                                                    dpi_scale)
                        ELSE <<0, 0>>
         IN  <<text_size[1] + padding * 2 + shadow[1],
               text_size[2] + padding * 2 + shadow[2]>>

(***************************************************************************)
(* SpecGeometry: calculate_total_size on every bounded styling section     *)
(***************************************************************************)
ShadowKeys == {ShadowEnabled, ShadowBlur, ShadowOffsetX, ShadowOffsetY}

\* documents with any of the four keys, each with a value of its own kind
GeometryDocs ==
    {d \in Docs(ShadowKeys, {TextTrue, TextFalse, <<"0">>, <<"3">>, <<"-","3">>, <<"x">>}) :
        /\ ShadowEnabled \in DOMAIN d => d[ShadowEnabled] \in BoolTexts
        /\ \A k \in (DOMAIN d) \ {ShadowEnabled} : d[k] \notin BoolTexts}

TextSizes == {<<0, 14>>, <<61, 14>>}

DpiScales == {2, 3, 4}

InitGeometry ==
    /\ file \in GeometryDocs
    /\ text = <<>>
    /\ fileExists = TRUE
    /\ StoreInit
    /\ watchers = <<>>
    /\ ClockInit
    /\ HistInit

CallTotalSize ==
    \E text_size \in TextSizes, dpi_scale \in DpiScales, raises \in BOOLEAN :
        Returns([op |-> "calculate_total_size", text_size |-> text_size,
                 dpi_scale |-> dpi_scale, raises |-> raises,
                 value |-> calculate_total_size(config, text_size, dpi_scale, raises)])

NextGeometry == CallTotalSize

SpecGeometry == InitGeometry /\ [][NextGeometry]_vars

\* the document without the keys of the shadow's blur and offsets
WithoutShadowValues(cfg) ==
    [k \in (DOMAIN cfg) \ {ShadowBlur, ShadowOffsetX, ShadowOffsetY} |-> cfg[k]]

\* C16: calculate_total_size returns (text_width + 2*padding + shadow_x,
\* text_height + 2*padding + shadow_y) with (shadow_x, shadow_y) the
\* shadow space of the configured blur and offsets when shadow_enabled is
\* true and (0, 0) when it is false, so that with shadow_enabled false
\* the blur and offsets do not matter; when the computation raises, the
\* result is (100, 50).
C16_TotalSize ==
    ret.op = "calculate_total_size" =>
        LET padding == calculate_padding(ret.dpi_scale)
            enabled == get_bool(config, ShadowEnabled, TRUE)
            space   == calculate_shadow_space(get_int(config, ShadowBlur, 2),
                                              get_int(config, ShadowOffsetX, 2),
                                              get_int(config, ShadowOffsetY, 2),
                                              ret.dpi_scale)
            shadow_x == IF enabled THEN space[1] ELSE 0
            shadow_y == IF enabled THEN space[2] ELSE 0
        IN  IF ret.raises THEN ret.value = <<100, 50>>
            ELSE /\ ret.value = <<ret.text_size[1] + 2 * padding + shadow_x,
                                  ret.text_size[2] + 2 * padding + shadow_y>>
                 /\ ~enabled =>
                      ret.value = calculate_total_size(WithoutShadowValues(config),
                                                       ret.text_size, ret.dpi_scale, FALSE)

C16_Witness ==
    /\ ret.op = "calculate_total_size"
    /\ ~ret.raises
    /\ ~get_bool(config, ShadowEnabled, TRUE)
    /\ ShadowBlur \in DOMAIN config
    /\ get_int(config, ShadowBlur, 2) = 3
    /\ ret.dpi_scale = 3
    /\ ret.value = <<61 + 30, 14 + 30>>

(***************************************************************************)
(* FloatingClock.update_time: the two texts of the label.  The time is     *)
(* <<hour, minute, second>>.                                               *)
(***************************************************************************)
\* a number below 100 as two digits
TwoDigits(n) == <<Digits[(n \div 10) + 1], Digits[(n % 10) + 1]>>

\* the hour of the 12-hour clock
Hour12(h) == IF h % 12 = 0 THEN 12 ELSE h % 12

\* datetime.strftime for the directives %H %I %M %S; any other character
\* is copied
RECURSIVE strftime(_, _)
strftime(now_, format) ==
    IF format = <<>> THEN <<>>
    ELSE IF Head(format) = "%" /\ Len(format) >= 2 /\ format[2] \in {"H", "I", "M", "S"}
         THEN (CASE format[2] = "H" -> TwoDigits(now_[1])
                 [] format[2] = "I" -> TwoDigits(Hour12(now_[1]))
                 [] format[2] = "M" -> TwoDigits(now_[2])
                 [] format[2] = "S" -> TwoDigits(now_[3]))
              \o strftime(now_, SubSeq(format, 3, Len(format)))
         ELSE <<Head(format)>> \o strftime(now_, Tail(format))

\* sub in s
Contains(s, sub) ==
    \E i \in 1..(Len(s) - Len(sub) + 1) : SubSeq(s, i, i + Len(sub) - 1) = sub

\* s.lstrip('0')
RECURSIVE lstrip0(_)
lstrip0(s) == IF s # <<>> /\ Head(s) = "0" THEN lstrip0(Tail(s)) ELSE s

TimeFormat        == <<"format", "time_format">>
TimeSecondsFormat == <<"format", "time_seconds_format">>

Directive12 == <<"%", "I">>

\* FloatingClock.update_time: time_text and seconds_text of the label
update_time(cfg, now_) ==
    LET time_format    == get(cfg, TimeFormat, PyNone)
        seconds_format == get(cfg, TimeSecondsFormat, PyNone)
    IN  IF Contains(time_format, Directive12)
        THEN [time_text |-> lstrip0(strftime(now_, time_format)),
              seconds_text |-> IF Contains(seconds_format, Directive12)
                               THEN lstrip0(strftime(now_, seconds_format))
                               ELSE strftime(now_, seconds_format)]
        ELSE [time_text |-> strftime(now_, time_format),
              seconds_text |-> strftime(now_, seconds_format)]

(***************************************************************************)
(* SpecTime: update_time on every bounded format section and time          *)
(***************************************************************************)
TimeFormats == { <<"%","I",":","%","M">>, <<"%","H",":","%","M">> }

SecondsFormats == { <<"%","S">>, <<"%","I">>, <<":","%","S">> }

TimeDocs ==
    {d \in Docs({TimeFormat, TimeSecondsFormat}, TimeFormats \cup SecondsFormats) :
        /\ TimeFormat \in DOMAIN d => d[TimeFormat] \in TimeFormats
        /\ TimeSecondsFormat \in DOMAIN d => d[TimeSecondsFormat] \in SecondsFormats}

Times == {0, 2, 10, 14} \X {0, 5} \X {0, 9}

InitTime ==
    /\ file \in TimeDocs
    /\ text = <<>>
    /\ fileExists = TRUE
    /\ StoreInit
    /\ watchers = <<>>
    /\ ClockInit
    /\ HistInit

\* the update timer fires
UpdateTime ==
    \E now_ \in Times :
        Returns([op |-> "update_time", now |-> now_,
                 value |-> update_time(config, now_)])

NextTime == UpdateTime

SpecTime == InitTime /\ [][NextTime]_vars

\* C17: the main text has its leading zeros stripped exactly when
\* time_format contains %I, the seconds text exactly when
\* time_seconds_format contains %I, whatever the other format is; at
\* 14:05:09 with "%I:%M" and "%S" the texts are "2:05" and "09".
C17_LeadingZeroPerFormat ==
    ret.op = "update_time" =>
        LET time_format    == get(config, TimeFormat, PyNone)
            seconds_format == get(config, TimeSecondsFormat, PyNone)
            main           == strftime(ret.now, time_format)
            seconds        == strftime(ret.now, seconds_format)
        IN  /\ ret.value.time_text =
                  IF Contains(time_format, Directive12) THEN lstrip0(main) ELSE main
            /\ ret.value.seconds_text =
                  IF Contains(seconds_format, Directive12) THEN lstrip0(seconds) ELSE seconds
            /\ ( /\ ret.now = <<14, 5, 9>>
                 /\ time_format = <<"%","I",":","%","M">>
                 /\ seconds_format = <<"%","S">> )
                 => /\ ret.value.time_text = <<"2", ":", "0", "5">>
                    /\ ret.value.seconds_text = <<"0", "9">>

(***************************************************************************)
(* platform.get_target_screen.  A display is known by the origin of its    *)
(* frame; the toolkit's screens are numbered from 1 and the primary one    *)
(* is the first.                                                           *)
(***************************************************************************)
PrimaryScreen == 1

\* ns_screens[screen_index] as Python indexes a sequence: a negative index
\* counts from the end; outside the sequence it raises IndexError
IndexOk(ns_screens, screen_index) ==
    /\ screen_index < Len(ns_screens)
    /\ screen_index >= -Len(ns_screens)

Indexed(ns_screens, screen_index) ==
    IF screen_index >= 0 THEN ns_screens[screen_index + 1]
    ELSE ns_screens[Len(ns_screens) + screen_index + 1]

\* the first toolkit screen whose origin is less than 1 away from the frame's
FirstMatch(qt_screens, target_frame) ==
    LET hits == {q \in 1..Len(qt_screens) :
                    /\ Abs(qt_screens[q][1] - target_frame[1]) < 1
                    /\ Abs(qt_screens[q][2] - target_frame[2]) < 1}
    IN  IF hits = {} THEN 0 ELSE Min(hits)

\* get_target_screen: the toolkit screen returned
get_target_screen(ns_screens, qt_screens, screen_index) ==
    IF ns_screens = <<>> \/ screen_index >= Len(ns_screens) THEN PrimaryScreen
    ELSE IF ~IndexOk(ns_screens, screen_index) THEN PrimaryScreen
    ELSE LET q == FirstMatch(qt_screens, Indexed(ns_screens, screen_index))
         IN  IF q # 0 THEN q ELSE PrimaryScreen

(***************************************************************************)
(* SpecScreens: get_target_screen on every bounded arrangement of displays *)
(***************************************************************************)
MaxScreens == 2

Origins == {<<0, 0>>, <<100, 0>>, <<0, -50>>}

\* arrangements of displays: no two at the same origin
Arrangements(least) ==
    {a \in UNION {[1..n -> Origins] : n \in least..MaxScreens} :
        \A i, j \in 1..Len(a) : a[i] = a[j] => i = j}

ScreenIndexes == (-(MaxScreens + 1))..(MaxScreens + 1)

InitScreens ==
    /\ file = EmptyDoc
    /\ text = <<>>
    /\ fileExists = FALSE
    /\ StoreInit
    /\ watchers = <<>>
    /\ ClockInit
    /\ HistInit

CallGetTargetScreen ==
    \E ns_screens \in Arrangements(0), qt_screens \in Arrangements(1),
       screen_index \in ScreenIndexes :
        Returns([value |-> get_target_screen(ns_screens, qt_screens, screen_index),
                 op |-> "get_target_screen", ns_screens |-> ns_screens,
                 screen_index |-> screen_index, qt_screens |-> qt_screens])

NextScreens == CallGetTargetScreen

SpecScreens == InitScreens /\ [][NextScreens]_vars

\* C18: get_target_screen returns the primary display for an index out of
\* range (index >= number of displays, or index < 0) and for an in-range
\* index whose display matches no toolkit screen by origin; what it
\* returns is the indexed display or the primary one.
C18_TargetScreen ==
    ret.op = "get_target_screen" =>
        LET n       == Len(ret.ns_screens)
            inrange == ret.screen_index >= 0 /\ ret.screen_index < n
            matches == IF inrange
                       THEN {q \in 1..Len(ret.qt_screens) :
                                ret.qt_screens[q] = ret.ns_screens[ret.screen_index + 1]}
                       ELSE {}
        IN  /\ ~inrange => ret.value = PrimaryScreen
            /\ (inrange /\ matches = {}) => ret.value = PrimaryScreen
            /\ ret.value \in matches \cup {PrimaryScreen}

(***************************************************************************)
(* main.main: the entry point's exception path.  The application object    *)
(* exists from QApplication(sys.argv) on; the event loop is app.exec().    *)
(***************************************************************************)
\* cleanup ends with sys.exit(0), whatever happened before it
cleanup_status == 0

\* what sys.exit(main()) ends the process with when main's try block raised
\* an Exception: with an application object cleanup is called and its
\* SystemExit, which "except Exception" does not catch, leaves main before
\* "return 1" is reached; the finally clause only calls app.quit()
main_status(app) == IF app THEN cleanup_status ELSE 1

\* an exception leaves app.exec(): main logs it and calls cleanup, which
\* closes every top-level window (the clock: closeEvent as on the tray's
\* Quit) and calls app.quit(); the process ends with main_status
FatalError ==
    LET on_finished == lambdas + 1
        to_remove   == lambdas + 2
        c           == closeEvent(Window)
    IN  /\ Running
        /\ SetWindow(hide(c))
        /\ trayVisible' = FALSE
        /\ timerActive' = FALSE
        /\ mouseTimerActive' = FALSE
        /\ fullscreenTimerActive' = FALSE
        /\ watchers' = remove_watcher(watchers, to_remove)
        /\ lambdas' = to_remove
        /\ closeAccepted' = TRUE
        /\ quitRequested' = TRUE
        /\ lastOp' = [op |-> "main"]
        /\ ret' = [op |-> "main", app |-> TRUE, status |-> main_status(TRUE)]
        /\ notified' = <<>>
        /\ UNCHANGED <<fileVars, config, last_modified, fileWatcherActive, pendingChanges>>

NextMain ==
    \/ Next
    \/ FatalError

SpecMain == Init /\ [][NextMain]_vars

\* C19: an exception that escapes at the entry point once the application
\* object exists is followed by the cleanup (every top-level window closed,
\* the application told to quit) and the process ends with a non-zero exit
\* status.
C19_FatalErrorExit ==
    ret.op = "main" =>
        /\ closeAccepted
        /\ quitRequested
        /\ ret.status # 0

(***************************************************************************)
(* Claims on load (SpecStore)                                              *)
(***************************************************************************)
\* every accessor that takes a default returns it, for every key looked up
DefaultsEverywhere(cfg) ==
    \A k \in LookupKeys :
        /\ \A s \in BoolTexts : get(cfg, k, PyStr(s)) = s
        /\ \A d \in IntDefaults : get_int(cfg, k, d) = d
        /\ \A d \in FloatDefaults : get_float(cfg, k, d) = NumberOf(d)
        /\ \A d \in BOOLEAN : get_bool(cfg, k, d) = d

\* C20: load() called while the file does not exist leaves the document
\* exactly as it was before the call; a store constructed while the file is
\* missing holds the empty document, and every lookup on it returns the
\* caller's default.
C20_LoadOfMissingFile ==
    [][ /\ (lastOp.op = "init" /\ ~fileExists) =>
                (config = EmptyDoc /\ DefaultsEverywhere(config))
        /\ (lastOp'.op = "load" /\ ~lastOp'.existed) => config' = config ]_vars

C20_Witness ==
    /\ lastOp.op = "load"
    /\ ~lastOp.existed
    /\ config # EmptyDoc

(***************************************************************************)
(* Claims on the completion callbacks of animate_opacity (Spec)            *)
(***************************************************************************)
\* the callbacks a completion invokes: the slots in connection order, up to
\* the first one whose disconnect is reached
RECURSIVE Invoked(_)
Invoked(slots) ==
    IF slots = <<>> THEN <<>>
    ELSE IF Head(slots) = "hide" THEN <<"hide">>
    ELSE <<Head(slots)>> \o Invoked(Tail(slots))

\* C21: a call of animate_opacity leaves one animation in flight, towards
\* the end value of the last call; when an animation completes, the only
\* callback invoked is the on_finished passed to that animation, it is
\* invoked once and is detached afterwards: no callback of an earlier,
\* cancelled animation is invoked.
C21_CallbackOncePerAnimation ==
    [][ /\ started' # <<>> => (animState' = "Running" /\ animEnd' = Last(started'))
        /\ lastOp'.op = "animation_finished" =>
              LET invoked == Invoked(finishedSlots)
              IN  /\ \A i \in 1..Len(invoked) : invoked[i] = animCallback
                  /\ Len(invoked) <= 1
                  /\ animCallback # "none" => invoked = <<animCallback>>
                  /\ Range(invoked) \cap Range(finishedSlots') = {} ]_vars

(***************************************************************************)
(* Claims on the timers (Spec)                                             *)
(***************************************************************************)
TimerCallbacks ==
    {"update_time", "check_mouse_proximity", "_check_fullscreen", "poll"}

\* C22: once closeEvent has run, the update timer, the mouse timer, the
\* fullscreen timer and the settings file watcher are all stopped, and no
\* callback of theirs runs any more.
C22_TimersStoppedOnClose ==
    [][ /\ closeAccepted' =>
              /\ ~timerActive'
              /\ ~mouseTimerActive'
              /\ ~fullscreenTimerActive'
              /\ ~fileWatcherActive'
        /\ closeAccepted => lastOp'.op \notin TimerCallbacks ]_vars

\* C23: as long as the window is not closed, the fullscreen timer is
\* running exactly when the platform integration is available and
\* hide_in_fullscreen is enabled in the current settings; so a setting
\* enabled after startup starts the periodic checks.
C23_DetectorFollowsSetting ==
    ~closeAccepted =>
        (fullscreenTimerActive <=>
            (APPKIT_AVAILABLE /\ get_bool(config, HideInFullscreen, TRUE)))

(***************************************************************************)
(* Size and position of the window.  Texts are known by what the font      *)
(* metrics measure: main_width and seconds_width are the advances of       *)
(* time_text in the label's font and of seconds_text in the seconds font,  *)
(* joined_width is the advance of time_text + seconds_text in the label's  *)
(* font, text_height the height of the label's font.  A screen is          *)
(* <<x, y, width, height>>.                                                *)
(***************************************************************************)
\* round(n / q) as Python rounds a float: to the nearest integer, a tie to
\* the even one
Round(n, q) ==
    LET f == n \div q
        r == n % q
    IN  IF 2 * r < q THEN f
        ELSE IF 2 * r > q THEN f + 1
        ELSE IF f % 2 = 0 THEN f ELSE f + 1

PositionX == <<"window", "position_x">>
PositionY == <<"window", "position_y">>

\* one coordinate of _apply_position: text = origin + (extent - text_extent)
\* * pos / 100.0, offset = (window_extent - text_extent) / 2, the window
\* goes to round(text - offset); pos is <<n, d>> for n / 10^d
Coordinate(origin, extent, text_extent, window_extent, pos) ==
    LET q == 200 * Pow10(pos[2])
    IN  Round(q * origin + 2 * (extent - text_extent) * pos[1]
                - 100 * Pow10(pos[2]) * (window_extent - text_extent), q)

_apply_positionNoOffset(cfg, screen, main_width, seconds_width, text_height, size) ==
    LET pos_x == get_float(cfg, PositionX, PyInt(50))
        pos_y == get_float(cfg, PositionY, PyInt(50))
        total_text_width == main_width + seconds_width
    IN  <<Coordinate(screen[1], screen[3], total_text_width, total_text_width, pos_x),
          Coordinate(screen[2], screen[4], text_height, text_height, pos_y)>>

\* ClockSettings._apply_position: where clock.move puts the window
_apply_position(cfg, screen, main_width, seconds_width, text_height, size) ==
    LET pos_x == get_float(cfg, PositionX, PyInt(50))
        pos_y == get_float(cfg, PositionY, PyInt(50))
        total_text_width == main_width + seconds_width
    IN  <<Coordinate(screen[1], screen[3], total_text_width, size[1], pos_x),
          Coordinate(screen[2], screen[4], text_height, size[2], pos_y)>>

\* QLabel.text() of the time label: setText is never called on it, the
\* texts drawn are its attributes time_text and seconds_text
label_text_width == 0

\* ClockSettings.apply_appearance: the size given to setFixedSize
apply_appearance(cfg, text_height, dpi_scale) ==
    calculate_total_size(cfg, <<label_text_width, text_height>>, dpi_scale, FALSE)

(***************************************************************************)
(* SpecLayout: the size and position that apply_settings and update_time   *)
(* give the window, on every bounded document, text and screen             *)
(***************************************************************************)
LayoutDocs ==
    {d \in Docs({ShadowEnabled, ShadowBlur, PositionX, PositionY},
                {TextTrue, TextFalse, <<"3">>, <<"0">>, <<"5","0">>, <<"1","2",".","5">>,
                 <<"1","0","0">>, <<"x">>, <<"2","5">>}) :
        /\ ShadowEnabled \in DOMAIN d => d[ShadowEnabled] \in BoolTexts
        /\ ShadowBlur \in DOMAIN d => d[ShadowBlur] = <<"3">>
        /\ PositionX \in DOMAIN d =>
              d[PositionX] \in {<<"0">>, <<"5","0">>, <<"1","2",".","5">>, <<"1","0","0">>, <<"x">>}
        /\ PositionY \in DOMAIN d => d[PositionY] \in {<<"5","0">>, <<"2","5">>}}

\* main_width, seconds_width, joined_width, text_height: no text yet, or
\* "2:05" and "09"
Measures == {<<0, 0, 0, 14>>, <<40, 12, 61, 14>>}

Screens == {<<0, 0, 1440, 900>>, <<1440, -180, 1921, 1080>>}

InitLayout ==
    /\ file \in LayoutDocs
    /\ text = <<>>
    /\ fileExists = TRUE
    /\ StoreInit
    /\ watchers = <<>>
    /\ ClockInit
    /\ HistInit

\* apply_settings: apply_appearance, then _apply_position on the size it set
CallApplySettings ==
    \E m \in Measures, dpi_scale \in {2, 3}, screen \in Screens :
        LET size == apply_appearance(config, m[4], dpi_scale)
        IN  Returns([op |-> "apply_settings", dpi_scale |-> dpi_scale,
                     pos |-> _apply_position(config, screen, m[1], m[2], m[4], size),
                     screen |-> screen, size |-> size, measures |-> m])

\* update_time, from setFixedSize on: the size of the joined text, then
\* _apply_position on that size
CallUpdateTime ==
    \E m \in Measures, dpi_scale \in {2, 3}, screen \in Screens :
        LET size == calculate_total_size(config, <<m[3], m[4]>>, dpi_scale, FALSE)
        IN  Returns([op |-> "update_time", dpi_scale |-> dpi_scale,
                     pos |-> _apply_position(config, screen, m[1], m[2], m[4], size),
                     screen |-> screen, size |-> size, measures |-> m])

NextLayout == CallApplySettings \/ CallUpdateTime

SpecLayout == InitLayout /\ [][NextLayout]_vars

\* C24: when apply_settings returns, the fixed size of the window is
\* calculate_total_size of the current main text joined with the current
\* seconds text under the current settings, and the position applied is
\* the one computed from that size.
C24_SizeFollowsText ==
    ret.op = "apply_settings" =>
        LET m    == ret.measures
            size == calculate_total_size(config, <<m[3], m[4]>>, ret.dpi_scale, FALSE)
        IN  /\ ret.size = size
            /\ ret.pos = _apply_position(config, ret.screen, m[1], m[2], m[4], size)

\* the percentage anchor of the text on one axis, as a fraction: the
\* numerator over 100 * 10^d for the position n / 10^d
Anchor(origin, extent, text_extent, pos) ==
    <<100 * Pow10(pos[2]) * origin + (extent - text_extent) * pos[1],
      100 * Pow10(pos[2])>>

\* window + (window_extent - text_extent) / 2 is within one half of the anchor
LandsOn(window, window_extent, text_extent, anchor) ==
    LET twice == (2 * window + (window_extent - text_extent)) * anchor[2] - 2 * anchor[1]
    IN  -anchor[2] <= twice /\ twice <= anchor[2]

\* C25: whatever size the window was given (whatever its padding and shadow
\* margin), the position applied puts the text at the percentage anchor:
\* window_x + (window.width - total_text_width)/2 is text_x = screen.x +
\* (screen.width - total_text_width) * position_x/100 up to the rounding,
\* the same for y with the text height; the position depends on nothing
\* else, so that applying it again gives the same position.
C25_TextLandsOnAnchor ==
    ret.op \in {"apply_settings", "update_time"} =>
        LET m     == ret.measures
            pos_x == get_float(config, PositionX, PyInt(50))
            pos_y == get_float(config, PositionY, PyInt(50))
        IN  /\ LandsOn(ret.pos[1], ret.size[1], m[1] + m[2],
                       Anchor(ret.screen[1], ret.screen[3], m[1] + m[2], pos_x))
            /\ LandsOn(ret.pos[2], ret.size[2], m[4],
                       Anchor(ret.screen[2], ret.screen[4], m[4], pos_y))
            /\ ret.pos = _apply_position(config, ret.screen, m[1], m[2], m[4], ret.size)

\* a text of non-zero width placed at 12.5 percent on the second screen,
\* in a window with a shadow margin
C25_Witness ==
    /\ ret.op = "apply_settings"
    /\ ret.measures[1] > 0
    /\ ret.screen[1] > 0
    /\ PositionX \in DOMAIN config
    /\ config[PositionX] = <<"1","2",".","5">>
    /\ get_bool(config, ShadowEnabled, TRUE)
    /\ ret.pos[1] > ret.screen[1]

(***************************************************************************)
(* Claims on the fullscreen detector and the animation together (Spec)     *)
(***************************************************************************)
\* C26: in every state where no opacity animation is running and the window
\* has not been closed, the window is hidden exactly when
\* is_fullscreen_active is true.
C26_HiddenIffFullscreen ==
    (animState # "Running" /\ ~closeAccepted) =>
        (~visible <=> is_fullscreen_active)

====
